---------------------------- MODULE Spec2Model ----------------------------
(***************************************************************************)
(* Gas / over-temperature alarm with a 4-key code lock and a serial        *)
(* command interface (src/main.cpp).                                       *)
(*                                                                         *)
(* The program is one cooperative loop:                                    *)
(*     alarmActivationUpdate(); alarmDeactivationUpdate(); uartTask();     *)
(*     delay(TIME_INCREMENT_MS);                                           *)
(* pc is the position in that loop.  uartTask blocks inside commands '4'   *)
(* and '5' on four further byte reads; each blocking read is a step of its *)
(* own (pc = "enterCode" / "newCode"), everything else is one step per     *)
(* function call.                                                          *)
(*                                                                         *)
(* Pin levels are integers 0/1 as DigitalIn reads them and are taken to be *)
(* stable for the duration of one function call.  Analog samples are       *)
(* integers in hundredths of full scale (lm35.read() * 100).               *)
(***************************************************************************)
EXTENDS Integers, Sequences, FiniteSets

\* ---------------------------------------------------------------- constants

NUMBER_OF_KEYS == 4
BLINKING_TIME_GAS_ALARM == 1000
BLINKING_TIME_OVER_TEMP_ALARM == 500
BLINKING_TIME_GAS_AND_OVER_TEMP_ALARM == 100
OVER_TEMP_LEVEL == 50
TIME_INCREMENT_MS == 10
\* the literal 5 of alarmDeactivationUpdate's "numberOfIncorrectCodes < 5"
BLOCK_LEVEL == 5

\* ------------------------------------------------------------------- bounds

\* Length of the sample buffer (NUMBER_OF_AVG_SAMPLES, 100 in the source,
\* scaled down so that the buffer contents can be enumerated).
AvgSamples == 2
\* numberOfIncorrectCodes is an unbounded int on the serial path; command '4'
\* is only fed to the model while the counter is below this cap.
MaxCount == 6

ON == TRUE
OFF == FALSE

Keys == 0 .. (NUMBER_OF_KEYS - 1)
Levels == {0, 1}

VARIABLES
    pc,                      \* position in main's loop
    alarmState,
    incorrectCode,
    overTempDetector,
    numberOfIncorrectCodes,
    buttonBeingCompared,
    codeSequence,
    accumulatedTimeAlarm,
    gasDetectorState,
    overTempDetectorState,
    lm35ReadingsArray,
    lm35SampleIndex,
    alarmLed,
    incorrectCodeLed,
    systemBlockedLed,
    sirenPin,                \* "input", or "outputLow" after output(); = LOW
    echoed,                  \* '*' written by the uartTask call of this loop pass
    reply,                   \* verdict line written by that call ("" if none)
    blockReached,            \* history: numberOfIncorrectCodes has been >= 5
    calls,                   \* history: alarmActivationUpdate calls so far, mod AvgSamples
    recent,                  \* history: the last samples read, newest last
    hold                     \* history: the keypad hold in progress, if any

vars == << pc, alarmState, incorrectCode, overTempDetector,
           numberOfIncorrectCodes, buttonBeingCompared, codeSequence,
           accumulatedTimeAlarm, gasDetectorState, overTempDetectorState,
           lm35ReadingsArray, lm35SampleIndex, alarmLed, incorrectCodeLed,
           systemBlockedLed, sirenPin, echoed, reply, blockReached,
           calls, recent, hold >>

uartOut == << echoed, reply >>

sensorVars == << overTempDetector, accumulatedTimeAlarm, gasDetectorState,
                 overTempDetectorState, lm35ReadingsArray, lm35SampleIndex,
                 alarmLed, sirenPin >>

lockVars == << incorrectCode, numberOfIncorrectCodes, buttonBeingCompared,
               codeSequence, incorrectCodeLed, systemBlockedLed >>

\* ------------------------------------------------------------ pure helpers

RECURSIVE SumFrom(_, _)
SumFrom(arr, i) ==
    IF i >= AvgSamples THEN 0 ELSE arr[i] + SumFrom(arr, i + 1)

\* lm35ReadingsSum after the summing loop (hundredths of full scale)
lm35ReadingsSum(arr) == SumFrom(arr, 0)

\* analogReading * 3.3 / 0.01, on a reading given in hundredths: the result is
\* in hundredths of a degree Celsius.
analogReadingScaledWithTheLM35Formula(analogReading) == analogReading * 330

\* lm35TempC > OVER_TEMP_LEVEL with lm35TempC = formula(sum / AvgSamples),
\* cleared of the division.
OverTemp(arr) ==
    analogReadingScaledWithTheLM35Formula(lm35ReadingsSum(arr))
        > OVER_TEMP_LEVEL * 100 * AvgSamples

RECURSIVE areEqualFrom(_, _, _)
areEqualFrom(code, buttonsPressed, i) ==
    IF i >= NUMBER_OF_KEYS THEN TRUE
    ELSE IF code[i] # buttonsPressed[i] THEN FALSE
    ELSE areEqualFrom(code, buttonsPressed, i + 1)

\* Mutant: the comparison loop starts at the second key.
areEqualSkipsFirstKey(code, buttonsPressed) ==
    areEqualFrom(code, buttonsPressed, 1)

areEqual(code, buttonsPressed) == areEqualFrom(code, buttonsPressed, 0)

\* ---------------------------------------------------------------- history

\* No keypad hold is in progress; `up` tells whether enter was up at the last
\* call of alarmDeactivationUpdate (or there has been no call yet).
NoHold ==
    [active |-> FALSE, up |-> TRUE, keys |-> << 0, 0, 0, 0 >>, from |-> 0,
     open |-> FALSE, again |-> FALSE]

\* The samples read by the last calls of alarmActivationUpdate, at most as
\* many as the buffer has slots, after one more call has read `sample`.
RecentAfter(sample) ==
    IF Len(recent) < AvgSamples THEN Append(recent, sample)
    ELSE Append(Tail(recent), sample)

\* ---------------------------------------------------------------- initial

Init ==
    /\ pc = "activation"
    /\ alarmState = OFF
    /\ incorrectCode = FALSE
    /\ overTempDetector = OFF
    /\ numberOfIncorrectCodes = 0
    /\ buttonBeingCompared = 0
    /\ codeSequence = [i \in Keys |-> IF i < 2 THEN 1 ELSE 0]
    /\ accumulatedTimeAlarm = 0
    /\ gasDetectorState = OFF
    /\ overTempDetectorState = OFF
    /\ lm35ReadingsArray = [i \in 0 .. (AvgSamples - 1) |-> 0]
    /\ lm35SampleIndex = 0
    /\ alarmLed = OFF
    /\ incorrectCodeLed = OFF
    /\ systemBlockedLed = OFF
    /\ sirenPin = "input"
    /\ echoed = 0
    /\ reply = ""
    /\ blockReached = FALSE
    /\ calls = 0
    /\ recent = << >>
    /\ hold = NoHold

\* -------------------------------------------------- alarmActivationUpdate

\* Mutant: the blink tests use > where the source has >=.
BlinkTimeReachedLate(gas, overTemp, accumulated) ==
    IF gas /\ overTemp
        THEN accumulated > BLINKING_TIME_GAS_AND_OVER_TEMP_ALARM
    ELSE IF gas
        THEN accumulated > BLINKING_TIME_GAS_ALARM
    ELSE IF overTemp
        THEN accumulated > BLINKING_TIME_OVER_TEMP_ALARM
    ELSE FALSE

\* The cadence test of the three blink branches: whether the accumulated time
\* has reached the blinking time selected by the recorded causes.
BlinkTimeReached(gas, overTemp, accumulated) ==
    IF gas /\ overTemp
        THEN accumulated >= BLINKING_TIME_GAS_AND_OVER_TEMP_ALARM
    ELSE IF gas
        THEN accumulated >= BLINKING_TIME_GAS_ALARM
    ELSE IF overTemp
        THEN accumulated >= BLINKING_TIME_OVER_TEMP_ALARM
    ELSE FALSE

\* Mutant: the test button records over-temperature only.
GasIgnoresTestButton(mq2, alarmTestButton) ==
    IF mq2 = 0 THEN ON ELSE gasDetectorState

\* The three "if" that record causes and set alarmState; each yields the value
\* after the three statements.
GasAfter(mq2, alarmTestButton) ==
    IF alarmTestButton # 0 THEN ON
    ELSE IF mq2 = 0 THEN ON
    ELSE gasDetectorState

\* Mutant: the over-temperature flag follows the reading of the current tick.
OverTempFollowsReading(overTemp, alarmTestButton) ==
    IF overTemp \/ alarmTestButton # 0 THEN ON ELSE OFF

OverTempAfter(overTemp, alarmTestButton) ==
    IF alarmTestButton # 0 THEN ON
    ELSE IF overTemp THEN ON
    ELSE overTempDetectorState

\* Mutant: over-temperature does not raise the alarm.
AlarmIgnoresTemperature(overTemp, mq2, alarmTestButton) ==
    IF mq2 = 0 \/ alarmTestButton # 0 THEN ON ELSE alarmState

\* Mutant: the alarm follows the causes of the current tick.
AlarmFollowsCauses(overTemp, mq2, alarmTestButton) ==
    IF mq2 = 0 \/ overTemp \/ alarmTestButton # 0 THEN ON ELSE OFF

AlarmAfter(overTemp, mq2, alarmTestButton) ==
    IF mq2 = 0 \/ overTemp \/ alarmTestButton # 0 THEN ON ELSE alarmState

\* Mutant: the siren pin is not returned to input when the alarm is OFF.
alarmActivationUpdateSirenStaysDriven(sample, mq2, alarmTestButton) ==
    /\ pc = "activation"
    /\ lm35ReadingsArray' = [lm35ReadingsArray EXCEPT ![lm35SampleIndex] = sample]
    /\ lm35SampleIndex' = IF lm35SampleIndex + 1 >= AvgSamples
                              THEN 0 ELSE lm35SampleIndex + 1
    /\ overTempDetector' = OverTemp(lm35ReadingsArray')
    /\ alarmState' = AlarmAfter(overTempDetector', mq2, alarmTestButton)
    /\ IF alarmState'
          THEN LET gas == GasAfter(mq2, alarmTestButton)
                   ot  == OverTempAfter(overTempDetector', alarmTestButton)
                   acc == accumulatedTimeAlarm + TIME_INCREMENT_MS
               IN  /\ gasDetectorState' = gas
                   /\ overTempDetectorState' = ot
                   /\ sirenPin' = "outputLow"
                   /\ IF BlinkTimeReached(gas, ot, acc)
                         THEN /\ accumulatedTimeAlarm' = 0
                              /\ alarmLed' = ~alarmLed
                         ELSE /\ accumulatedTimeAlarm' = acc
                              /\ alarmLed' = alarmLed
          ELSE /\ alarmLed' = OFF
               /\ gasDetectorState' = OFF
               /\ overTempDetectorState' = OFF
               /\ sirenPin' = sirenPin
               /\ accumulatedTimeAlarm' = accumulatedTimeAlarm
    /\ pc' = "deactivation"
    /\ UNCHANGED << lockVars, uartOut, blockReached >>

\* Mutant: the sample index wraps one call late.
alarmActivationUpdateWrapsLate(sample, mq2, alarmTestButton) ==
    /\ pc = "activation"
    /\ lm35ReadingsArray' = [lm35ReadingsArray EXCEPT ![lm35SampleIndex] = sample]
    /\ lm35SampleIndex' = IF lm35SampleIndex + 1 > AvgSamples
                              THEN 0 ELSE lm35SampleIndex + 1
    /\ overTempDetector' = OverTemp(lm35ReadingsArray')
    /\ alarmState' = AlarmAfter(overTempDetector', mq2, alarmTestButton)
    /\ IF alarmState'
          THEN LET gas == GasAfter(mq2, alarmTestButton)
                   ot  == OverTempAfter(overTempDetector', alarmTestButton)
                   acc == accumulatedTimeAlarm + TIME_INCREMENT_MS
               IN  /\ gasDetectorState' = gas
                   /\ overTempDetectorState' = ot
                   /\ sirenPin' = "outputLow"
                   /\ IF BlinkTimeReached(gas, ot, acc)
                         THEN /\ accumulatedTimeAlarm' = 0
                              /\ alarmLed' = ~alarmLed
                         ELSE /\ accumulatedTimeAlarm' = acc
                              /\ alarmLed' = alarmLed
          ELSE /\ alarmLed' = OFF
               /\ gasDetectorState' = OFF
               /\ overTempDetectorState' = OFF
               /\ sirenPin' = "input"
               /\ accumulatedTimeAlarm' = accumulatedTimeAlarm
    /\ pc' = "deactivation"
    /\ UNCHANGED << lockVars, uartOut, blockReached >>

alarmActivationUpdate(sample, mq2, alarmTestButton) ==
    /\ pc = "activation"
    /\ lm35ReadingsArray' = [lm35ReadingsArray EXCEPT ![lm35SampleIndex] = sample]
    /\ lm35SampleIndex' = IF lm35SampleIndex + 1 >= AvgSamples
                              THEN 0 ELSE lm35SampleIndex + 1
    /\ overTempDetector' = OverTemp(lm35ReadingsArray')
    /\ alarmState' = AlarmAfter(overTempDetector', mq2, alarmTestButton)
    /\ IF alarmState'
          THEN LET gas == GasAfter(mq2, alarmTestButton)
                   ot  == OverTempAfter(overTempDetector', alarmTestButton)
                   acc == accumulatedTimeAlarm + TIME_INCREMENT_MS
               IN  /\ gasDetectorState' = gas
                   /\ overTempDetectorState' = ot
                   /\ sirenPin' = "outputLow"
                   /\ IF BlinkTimeReached(gas, ot, acc)
                         THEN /\ accumulatedTimeAlarm' = 0
                              /\ alarmLed' = ~alarmLed
                         ELSE /\ accumulatedTimeAlarm' = acc
                              /\ alarmLed' = alarmLed
          ELSE /\ alarmLed' = OFF
               /\ gasDetectorState' = OFF
               /\ overTempDetectorState' = OFF
               /\ sirenPin' = "input"
               /\ accumulatedTimeAlarm' = accumulatedTimeAlarm
    /\ pc' = "deactivation"
    /\ UNCHANGED << lockVars, uartOut, blockReached >>

\* ------------------------------------------------ alarmDeactivationUpdate

\* Mutant: the latch is released when the four buttons and enter are all up.
ReleaseWhenAllReleased(aButton, bButton, cButton, dButton, enterButton) ==
    aButton = 0 /\ bButton = 0 /\ cButton = 0 /\ dButton = 0 /\ enterButton = 0

\* The latch release test of line 303.
ReleaseCondition(aButton, bButton, cButton, dButton, enterButton) ==
    aButton # 0 /\ bButton # 0 /\ cButton # 0 /\ dButton # 0 /\ enterButton = 0

\* Mutant: the keypad is evaluated whether or not the indicator is latched.
KeypadGuardIgnoresLatch(enterButton, led) ==
    /\ numberOfIncorrectCodes < BLOCK_LEVEL
    /\ enterButton # 0
    /\ alarmState

\* Mutant: the keypad is evaluated whether or not the alarm is ON.
KeypadGuardIgnoresAlarm(enterButton, led) ==
    /\ numberOfIncorrectCodes < BLOCK_LEVEL
    /\ enterButton # 0
    /\ ~led

\* The guard of the keypad evaluation (lines 302 and 306); led is the
\* incorrect-code indicator as line 306 reads it.
KeypadGuard(enterButton, led) ==
    /\ numberOfIncorrectCodes < BLOCK_LEVEL
    /\ enterButton # 0
    /\ ~led
    /\ alarmState

alarmDeactivationUpdate(aButton, bButton, cButton, dButton, enterButton) ==
    /\ pc = "deactivation"
    /\ systemBlockedLed' =
          IF numberOfIncorrectCodes < BLOCK_LEVEL THEN systemBlockedLed ELSE ON
    /\ LET led == IF /\ numberOfIncorrectCodes < BLOCK_LEVEL
                     /\ ReleaseCondition(aButton, bButton, cButton, dButton,
                                         enterButton)
                     THEN OFF ELSE incorrectCodeLed
           buttonsPressed == [i \in Keys |->
                                CASE i = 0 -> aButton
                                  [] i = 1 -> bButton
                                  [] i = 2 -> cButton
                                  [] OTHER -> dButton]
       IN  IF KeypadGuard(enterButton, led)
              THEN IF areEqual(codeSequence, buttonsPressed)
                      THEN /\ alarmState' = OFF
                           /\ numberOfIncorrectCodes' = 0
                           /\ incorrectCodeLed' = led
                      ELSE /\ incorrectCodeLed' = ON
                           /\ numberOfIncorrectCodes' = numberOfIncorrectCodes + 1
                           /\ alarmState' = alarmState
              ELSE /\ incorrectCodeLed' = led
                   /\ UNCHANGED << alarmState, numberOfIncorrectCodes >>
    /\ pc' = "uart"
    /\ blockReached' = (blockReached \/ numberOfIncorrectCodes' >= BLOCK_LEVEL)
    /\ UNCHANGED << sensorVars, incorrectCode, buttonBeingCompared,
                    codeSequence, uartOut >>

\* ----------------------------------------------------------------- uartTask

\* The serial bytes are one-character strings.  Commands without an effect on
\* the program state (status reports, potentiometer and temperature reports,
\* the help listing) only write text, which is not recorded.

\* Mutant: command '5' also clears the count of incorrect codes as it starts.
uartTaskNewCodeClearsCount(readable, receivedChar) ==
    /\ pc = "uart"
    /\ IF ~readable
          THEN /\ pc' = "delay"
               /\ UNCHANGED << incorrectCode, buttonBeingCompared,
                               numberOfIncorrectCodes >>
          ELSE CASE receivedChar = "4" ->
                        /\ numberOfIncorrectCodes < MaxCount
                        /\ incorrectCode' = FALSE
                        /\ buttonBeingCompared' = 0
                        /\ pc' = "enterCode"
                        /\ UNCHANGED numberOfIncorrectCodes
                 [] receivedChar = "5" ->
                        /\ buttonBeingCompared' = 0
                        /\ pc' = "newCode"
                        /\ numberOfIncorrectCodes' = 0
                        /\ UNCHANGED incorrectCode
                 [] OTHER ->
                        /\ pc' = "delay"
                        /\ UNCHANGED << incorrectCode, buttonBeingCompared,
                                        numberOfIncorrectCodes >>
    /\ UNCHANGED << alarmState, sensorVars, codeSequence, incorrectCodeLed,
                    systemBlockedLed, uartOut, blockReached >>

\* uartTask up to its first blocking read: no input, a one-byte command, or the
\* prologue of command '4' / '5' (prompt text, incorrectCode = false, loop
\* initialisation).
uartTask(readable, receivedChar) ==
    /\ pc = "uart"
    /\ IF ~readable
          THEN /\ pc' = "delay"
               /\ UNCHANGED << incorrectCode, buttonBeingCompared >>
          ELSE CASE receivedChar = "4" ->
                        /\ numberOfIncorrectCodes < MaxCount
                        /\ incorrectCode' = FALSE
                        /\ buttonBeingCompared' = 0
                        /\ pc' = "enterCode"
                 [] receivedChar = "5" ->
                        /\ buttonBeingCompared' = 0
                        /\ pc' = "newCode"
                        /\ UNCHANGED incorrectCode
                 [] OTHER ->
                        /\ pc' = "delay"
                        /\ UNCHANGED << incorrectCode, buttonBeingCompared >>
    /\ UNCHANGED << alarmState, sensorVars, numberOfIncorrectCodes,
                    codeSequence, incorrectCodeLed, systemBlockedLed, uartOut,
                    blockReached >>

\* The comparison of one received byte with one digit of the secret code
\* (lines 377-387): TRUE when the position mismatches.
DigitMismatch(receivedChar, digit) ==
    IF receivedChar = "1" THEN digit # 1
    ELSE IF receivedChar = "0" THEN digit # 0
    ELSE TRUE

\* Mutant: a match leaves the incorrect-code indicator as it is.
CodeEnteredKeepsIndicator(incorrect) ==
    IF incorrect = FALSE
       THEN /\ reply' = "The code is correct"
            /\ alarmState' = OFF
            /\ incorrectCodeLed' = incorrectCodeLed
            /\ numberOfIncorrectCodes' = 0
       ELSE /\ reply' = "The code is incorrect"
            /\ incorrectCodeLed' = ON
            /\ numberOfIncorrectCodes' = numberOfIncorrectCodes + 1
            /\ alarmState' = alarmState

\* The evaluation that follows command '4''s loop (lines 390-399).
CodeEntered(incorrect) ==
    IF incorrect = FALSE
       THEN /\ reply' = "The code is correct"
            /\ alarmState' = OFF
            /\ incorrectCodeLed' = OFF
            /\ numberOfIncorrectCodes' = 0
       ELSE /\ reply' = "The code is incorrect"
            /\ incorrectCodeLed' = ON
            /\ numberOfIncorrectCodes' = numberOfIncorrectCodes + 1
            /\ alarmState' = alarmState

\* Mutant: command '4' stops reading at the first mismatching byte.
uartEnterCodeDigitStopsAtMismatch(receivedChar) ==
    /\ pc = "enterCode"
    /\ echoed' = echoed + 1
    /\ incorrectCode' =
          (incorrectCode \/
             DigitMismatch(receivedChar, codeSequence[buttonBeingCompared]))
    /\ buttonBeingCompared' = buttonBeingCompared + 1
    /\ IF buttonBeingCompared' < NUMBER_OF_KEYS /\ ~incorrectCode'
          THEN /\ pc' = "enterCode"
               /\ UNCHANGED << alarmState, incorrectCodeLed,
                               numberOfIncorrectCodes, reply >>
          ELSE /\ pc' = "delay"
               /\ CodeEntered(incorrectCode')
    /\ blockReached' = (blockReached \/ numberOfIncorrectCodes' >= BLOCK_LEVEL)
    /\ UNCHANGED << sensorVars, codeSequence, systemBlockedLed >>

\* One pass of command '4''s loop: a blocking read, the echo, the comparison;
\* the pass that reads the last byte runs on through the evaluation that
\* follows the loop.
uartEnterCodeDigit(receivedChar) ==
    /\ pc = "enterCode"
    /\ echoed' = echoed + 1
    /\ incorrectCode' =
          (incorrectCode \/
             DigitMismatch(receivedChar, codeSequence[buttonBeingCompared]))
    /\ buttonBeingCompared' = buttonBeingCompared + 1
    /\ IF buttonBeingCompared' < NUMBER_OF_KEYS
          THEN /\ pc' = "enterCode"
               /\ UNCHANGED << alarmState, incorrectCodeLed,
                               numberOfIncorrectCodes, reply >>
          ELSE /\ pc' = "delay"
               /\ CodeEntered(incorrectCode')
    /\ blockReached' = (blockReached \/ numberOfIncorrectCodes' >= BLOCK_LEVEL)
    /\ UNCHANGED << sensorVars, codeSequence, systemBlockedLed >>

\* Mutant: a byte other than '0' and '1' clears the digit.
NewDigitInvalidClears(receivedChar, old) ==
    IF receivedChar = "1" THEN 1 ELSE 0

\* The assignment of one pass of command '5''s loop (lines 420-424).
NewDigit(receivedChar, old) ==
    IF receivedChar = "1" THEN 1
    ELSE IF receivedChar = "0" THEN 0
    ELSE old

\* Mutant: setting a new code also clears the count of incorrect codes.
uartNewCodeDigitClearsCount(receivedChar) ==
    /\ pc = "newCode"
    /\ echoed' = echoed + 1
    /\ codeSequence' =
          [codeSequence EXCEPT ![buttonBeingCompared] =
              NewDigit(receivedChar, codeSequence[buttonBeingCompared])]
    /\ buttonBeingCompared' = buttonBeingCompared + 1
    /\ IF buttonBeingCompared' < NUMBER_OF_KEYS
          THEN pc' = "newCode" /\ reply' = reply
          ELSE pc' = "delay" /\ reply' = "New code generated"
    /\ numberOfIncorrectCodes' = 0
    /\ UNCHANGED << alarmState, sensorVars, incorrectCode, incorrectCodeLed,
                    systemBlockedLed, blockReached >>

uartNewCodeDigit(receivedChar) ==
    /\ pc = "newCode"
    /\ echoed' = echoed + 1
    /\ codeSequence' =
          [codeSequence EXCEPT ![buttonBeingCompared] =
              NewDigit(receivedChar, codeSequence[buttonBeingCompared])]
    /\ buttonBeingCompared' = buttonBeingCompared + 1
    /\ IF buttonBeingCompared' < NUMBER_OF_KEYS
          THEN pc' = "newCode" /\ reply' = reply
          ELSE pc' = "delay" /\ reply' = "New code generated"
    /\ UNCHANGED << alarmState, sensorVars, incorrectCode,
                    numberOfIncorrectCodes, incorrectCodeLed, systemBlockedLed,
                    blockReached >>

\* uartTask has returned; delay(TIME_INCREMENT_MS) ends the loop pass.
delay ==
    /\ pc = "delay"
    /\ pc' = "activation"
    /\ echoed' = 0
    /\ reply' = ""
    /\ UNCHANGED << alarmState, sensorVars, lockVars, blockReached >>

\* ---------------------------------------------------------- specifications

Samples == {0, 20}
Commands == {"1", "2", "3", "4", "5", "p", "P", "c", "C", "f", "F", "x"}
Bytes == {"0", "1", "x"}

\* main's loop, one definition per call site, with the inputs the call reads
\* drawn from the given sets and the history variables kept up to date.

Activation(samples, gasLevels) ==
    \E sample \in samples, mq2 \in gasLevels, alarmTestButton \in Levels :
        /\ alarmActivationUpdate(sample, mq2, alarmTestButton)
        /\ calls' = (calls + 1) % AvgSamples
        /\ recent' = RecentAfter(sample)
        /\ UNCHANGED hold

Deactivation ==
    \E a \in Levels, b \in Levels, c \in Levels, d \in Levels,
       enter \in Levels :
        /\ alarmDeactivationUpdate(a, b, c, d, enter)
        /\ UNCHANGED << calls, recent, hold >>

\* A tick outside a keypad hold, which records whether it saw enter up.
FreeDeactivation ==
    \E a \in Levels, b \in Levels, c \in Levels, d \in Levels,
       enter \in Levels :
        /\ ~hold.active
        /\ alarmDeactivationUpdate(a, b, c, d, enter)
        /\ hold' = [NoHold EXCEPT !.up = (enter = 0)]
        /\ UNCHANGED << calls, recent >>

\* A tick of a keypad hold: the alarm is ON, enter is pressed and the four
\* buttons are at a code other than the secret one.  A hold starts at a tick
\* that follows one with enter up; its first tick records the buttons, the
\* counter and whether the keypad is open to an evaluation, every later tick
\* has the same buttons.
HeldDeactivation ==
    \E a \in Levels, b \in Levels, c \in Levels, d \in Levels :
        /\ alarmState
        /\ \E i \in Keys : << a, b, c, d >>[i + 1] # codeSequence[i]
        /\ alarmDeactivationUpdate(a, b, c, d, 1)
        /\ IF hold.active
              THEN /\ hold.keys = << a, b, c, d >>
                   /\ hold' = [hold EXCEPT !.again = TRUE]
              ELSE /\ hold.up
                   /\ hold' =
                           [active |-> TRUE, up |-> FALSE,
                            keys |-> << a, b, c, d >>,
                            from |-> numberOfIncorrectCodes,
                            open |-> (~incorrectCodeLed
                                      /\ numberOfIncorrectCodes < BLOCK_LEVEL),
                            again |-> FALSE]
        /\ UNCHANGED << calls, recent >>

\* No byte arrives on the serial port while a keypad hold is in progress.
Uart(commands) ==
    \E readable \in BOOLEAN, ch \in commands :
        /\ hold.active => ~readable
        /\ uartTask(readable, ch)
        /\ UNCHANGED << calls, recent, hold >>

EnterCodeDigit ==
    \E ch \in Bytes :
        uartEnterCodeDigit(ch) /\ UNCHANGED << calls, recent, hold >>

NewCodeDigit ==
    \E ch \in Bytes :
        uartNewCodeDigit(ch) /\ UNCHANGED << calls, recent, hold >>

Delay == delay /\ UNCHANGED << calls, recent, hold >>

\* The whole program under every input.
Next ==
    \/ Activation(Samples, Levels)
    \/ Deactivation
    \/ Uart(Commands)
    \/ EnterCodeDigit
    \/ NewCodeDigit
    \/ Delay

Spec == Init /\ [][Next]_vars

\* The program with the secret code left as initialised: every sensor, keypad
\* and serial input except command '5'.
NextAlarm ==
    \/ Activation(Samples, Levels)
    \/ Deactivation
    \/ Uart(Commands \ {"5"})
    \/ EnterCodeDigit
    \/ Delay

SpecAlarm == Init /\ [][NextAlarm]_vars

\* The program with the test button as the only cause of alarm (no gas, the
\* temperature sensor at 0): every keypad and serial input, command '5'
\* included.
NextLock ==
    \/ Activation({0}, {1})
    \/ Deactivation
    \/ Uart(Commands)
    \/ EnterCodeDigit
    \/ NewCodeDigit
    \/ Delay

SpecLock == Init /\ [][NextLock]_vars

\* The program of SpecLock with the secret code left as initialised, in which
\* at any tick with the alarm ON the user may start to hold a wrong code with
\* enter pressed, and then holds it while nothing arrives on the serial port.
NextHold ==
    \/ Activation({0}, {1})
    \/ FreeDeactivation
    \/ HeldDeactivation
    \/ Uart(Commands \ {"5"})
    \/ EnterCodeDigit
    \/ Delay

SpecHold == Init /\ [][NextHold]_vars

\* ------------------------------------------------------------------ claims

\* What the properties below say about a step is stated for every input that
\* explains the step: "\A inputs : action(inputs) => ...".

\* The candidate code of a keypad evaluation: the levels of buttons A, B, C, D.
KeypadCandidate(a, b, c, d) == << a, b, c, d >>

SameDigits(candidate) ==
    \A i \in Keys : candidate[i + 1] = codeSequence[i]

\* A step of alarmDeactivationUpdate that can only be explained by the enter
\* button pressed on a candidate equal to the secret code.
KeypadMatchStep ==
    /\ pc = "deactivation"
    /\ \A a \in Levels, b \in Levels, c \in Levels, d \in Levels, e \in Levels :
          alarmDeactivationUpdate(a, b, c, d, e) =>
              e = 1 /\ SameDigits(KeypadCandidate(a, b, c, d))

\* The step of command '4' that reads the fourth byte, reports a match, and had
\* no mismatch on the three bytes before.
SerialMatchStep ==
    /\ pc = "enterCode"
    /\ buttonBeingCompared = NUMBER_OF_KEYS - 1
    /\ ~incorrectCode
    /\ reply' = "The code is correct"

\* C1: once alarmState is ON no sensor input turns it OFF: every ON-to-OFF
\* change of alarmState is a successful code match, by the keypad in
\* alarmDeactivationUpdate or by serial command '4' in uartTask.
C1_StickyActivation ==
    [][(alarmState /\ ~alarmState') => (KeypadMatchStep \/ SerialMatchStep)]_vars

\* The alarm is still ON at the end of an alarmActivationUpdate that found no
\* cause: over temperature was recorded earlier and has gone, and neither gas
\* nor the test button has been seen in this period.
C1_Witness ==
    /\ pc = "deactivation"
    /\ alarmState
    /\ overTempDetectorState /\ ~overTempDetector
    /\ ~gasDetectorState

\* C2: once numberOfIncorrectCodes has reached 5 no code attempt is evaluated
\* on either path: the counter never changes again, alarmState is never turned
\* OFF again, and a further serial '4' entry leaves the counter, alarmState and
\* the incorrect-code indicator as they are.
C2_BlockedIsTerminal ==
    [][numberOfIncorrectCodes >= BLOCK_LEVEL =>
          /\ numberOfIncorrectCodes' = numberOfIncorrectCodes
          /\ (alarmState => alarmState')
          /\ incorrectCodeLed' = incorrectCodeLed]_vars

\* The byte that stands for a digit of the secret code on the serial line.
CharOfDigit(d) == IF d = 1 THEN "1" ELSE "0"

\* The tick conditions under which the keypad is evaluated.
Evaluates(e) ==
    /\ alarmState
    /\ ~incorrectCodeLed
    /\ e = 1
    /\ numberOfIncorrectCodes < BLOCK_LEVEL

\* What a step shows of the verdict of an evaluation.
MatchReported == ~alarmState' /\ numberOfIncorrectCodes' = 0
MismatchReported == numberOfIncorrectCodes' = numberOfIncorrectCodes + 1

\* C3 (keypad): an evaluation reports Match exactly when buttons A, B, C, D
\* equal the secret code digit by digit.
C3_Keypad ==
    pc = "deactivation" =>
      \A a \in Levels, b \in Levels, c \in Levels, d \in Levels, e \in Levels :
        (Evaluates(e) /\ alarmDeactivationUpdate(a, b, c, d, e)) =>
            /\ MatchReported <=> SameDigits(KeypadCandidate(a, b, c, d))
            /\ MismatchReported <=> ~SameDigits(KeypadCandidate(a, b, c, d))

\* C3 (serial): command '4' starts with no mismatch recorded; every byte read
\* is echoed and records a mismatch exactly when it is not the byte of the
\* digit at its position (so any byte other than '0' and '1' does); the loop
\* reads all four bytes whatever was recorded before; Match is reported
\* exactly when no position mismatched.
C3_Serial ==
    /\ (pc = "uart" /\ pc' = "enterCode") =>
          ~incorrectCode' /\ buttonBeingCompared' = 0 /\ echoed' = 0
    /\ pc = "enterCode" => \A ch \in Bytes :
          uartEnterCodeDigit(ch) =>
              /\ incorrectCode' =
                    (incorrectCode \/
                       ch # CharOfDigit(codeSequence[buttonBeingCompared]))
              /\ echoed' = echoed + 1
              /\ buttonBeingCompared' = buttonBeingCompared + 1
              /\ codeSequence' = codeSequence
              /\ IF buttonBeingCompared' = NUMBER_OF_KEYS
                    THEN /\ pc' = "delay"
                         /\ echoed' = NUMBER_OF_KEYS
                         /\ reply' = "The code is correct" <=> ~incorrectCode'
                         /\ reply' = "The code is incorrect" <=> incorrectCode'
                    ELSE pc' = "enterCode" /\ reply' = ""

\* C3: for every secret code and every candidate, a code evaluation reports
\* Match if and only if the candidate equals the secret code digit by digit,
\* on the keypad and on serial command '4', where a byte other than '0' and
\* '1' is a mismatch and all four bytes are read and echoed.
C3_MatchIffEqual == [][C3_Keypad /\ C3_Serial]_vars

\* A serial entry has matched a secret code other than the initial one.
C3_Witness ==
    /\ pc = "delay"
    /\ reply = "The code is correct"
    /\ echoed = NUMBER_OF_KEYS
    /\ codeSequence = [i \in Keys |-> IF i = 3 THEN 1 ELSE 0]

\* C4: after a Match the counter is 0, alarmState is OFF and the incorrect-code
\* indicator is OFF; after a Mismatch the counter is its previous value plus
\* 1, the indicator is ON and alarmState is unchanged; on both paths.
C4_EvaluationEffect ==
    [][/\ pc = "deactivation" =>
             \A a \in Levels, b \in Levels, c \in Levels, d \in Levels,
                e \in Levels :
             (Evaluates(e) /\ alarmDeactivationUpdate(a, b, c, d, e)) =>
                 IF SameDigits(KeypadCandidate(a, b, c, d))
                    THEN /\ numberOfIncorrectCodes' = 0
                         /\ ~alarmState'
                         /\ ~incorrectCodeLed'
                    ELSE /\ numberOfIncorrectCodes' = numberOfIncorrectCodes + 1
                         /\ incorrectCodeLed'
                         /\ alarmState' = alarmState
       /\ (pc = "enterCode" /\ pc' = "delay") => \A ch \in Bytes :
             uartEnterCodeDigit(ch) =>
                 IF ~incorrectCode /\
                        ch = CharOfDigit(codeSequence[NUMBER_OF_KEYS - 1])
                    THEN /\ numberOfIncorrectCodes' = 0
                         /\ ~alarmState'
                         /\ ~incorrectCodeLed'
                    ELSE /\ numberOfIncorrectCodes' = numberOfIncorrectCodes + 1
                         /\ incorrectCodeLed'
                         /\ alarmState' = alarmState]_vars

\* A first serial entry was a mismatch: four bytes echoed, the counter at 1,
\* the indicator ON, the alarm still ON.
C4_Witness ==
    /\ pc = "delay"
    /\ reply = "The code is incorrect"
    /\ echoed = NUMBER_OF_KEYS
    /\ numberOfIncorrectCodes = 1
    /\ incorrectCodeLed
    /\ alarmState

\* C5: in every step numberOfIncorrectCodes stays the same, increases by
\* exactly 1 or becomes 0; it becomes 0 from a non-zero value only in a
\* successful code match; it changes only in code-evaluation steps.
C5_CounterSteps ==
    [][/\ numberOfIncorrectCodes' \in
             {numberOfIncorrectCodes, numberOfIncorrectCodes + 1, 0}
       /\ (numberOfIncorrectCodes' # numberOfIncorrectCodes) =>
             \/ pc = "deactivation"
             \/ pc = "enterCode" /\ pc' = "delay"
       /\ (numberOfIncorrectCodes # 0 /\ numberOfIncorrectCodes' = 0) =>
             (KeypadMatchStep \/ SerialMatchStep)]_vars

\* A third incorrect code in a row has been counted, after a new code was set.
C5_Witness ==
    /\ pc = "delay"
    /\ reply = "The code is incorrect"
    /\ numberOfIncorrectCodes = 3
    /\ codeSequence # [i \in Keys |-> IF i < 2 THEN 1 ELSE 0]

\* C6: whenever numberOfIncorrectCodes has reached 5, by either path,
\* systemBlockedLed is ON no later than the end of the next
\* alarmDeactivationUpdate, and once ON it is ON in every later state.
C6_BlockedIndicator ==
    [][/\ (pc = "deactivation" /\ blockReached) => systemBlockedLed'
       /\ systemBlockedLed => systemBlockedLed']_vars

\* C7 as stated: with the incorrect-code indicator set, a tick in which the
\* four keypad buttons and the enter button are all released clears it.
C7_ReleasedButtonsClear ==
    [][(/\ incorrectCodeLed
        /\ numberOfIncorrectCodes < BLOCK_LEVEL
        /\ alarmDeactivationUpdate(0, 0, 0, 0, 0)) => ~incorrectCodeLed']_vars

\* C7 (amended): while the incorrect-code indicator is set,
\* alarmDeactivationUpdate performs no keypad evaluation; it clears the
\* indicator exactly in a tick in which numberOfIncorrectCodes < 5, all four
\* keypad buttons are pressed and the enter button is released; the only other
\* step that clears the indicator is a matching serial '4' entry.
C7_LatchRelease ==
    [][/\ (pc = "deactivation" /\ incorrectCodeLed) =>
             \A a \in Levels, b \in Levels, c \in Levels, d \in Levels,
                e \in Levels :
                alarmDeactivationUpdate(a, b, c, d, e) =>
                    /\ numberOfIncorrectCodes' = numberOfIncorrectCodes
                    /\ alarmState' = alarmState
                    /\ ~incorrectCodeLed' <=>
                          /\ numberOfIncorrectCodes < BLOCK_LEVEL
                          /\ a = 1 /\ b = 1 /\ c = 1 /\ d = 1
                          /\ e = 0
       /\ (incorrectCodeLed /\ ~incorrectCodeLed' /\ pc # "deactivation") =>
             (pc = "enterCode" /\ reply' = "The code is correct")]_vars

\* A keypad mismatch set the indicator (no serial command has run) and a
\* later tick has cleared it; the alarm is still ON.
C7_Witness ==
    /\ pc = "uart"
    /\ buttonBeingCompared = 0
    /\ numberOfIncorrectCodes = 1
    /\ ~incorrectCodeLed
    /\ alarmState

\* C8 (step): each pass of command '5' writes the position it is at: 1 for
\* '1', 0 for '0', the previous digit for any other byte; the passes run over
\* positions 0..3 in order and then the command ends.
C8_Step ==
    /\ (pc = "uart" /\ pc' = "newCode") => buttonBeingCompared' = 0
    /\ pc = "newCode" => \A ch \in Bytes :
          uartNewCodeDigit(ch) =>
              /\ codeSequence' =
                    [codeSequence EXCEPT ![buttonBeingCompared] =
                        IF ch = "1" THEN 1 ELSE IF ch = "0" THEN 0 ELSE @]
              /\ buttonBeingCompared' = buttonBeingCompared + 1
              /\ pc' = IF buttonBeingCompared' = NUMBER_OF_KEYS
                          THEN "delay" ELSE "newCode"

\* C8: serial command '5' rewrites the secret code position by position from
\* its four bytes, is accepted in any state (whatever alarmState and
\* numberOfIncorrectCodes are, with no old code asked for), and every digit of
\* the secret code is always 0 or 1.
C8_NewCode ==
    /\ [](\A i \in Keys : codeSequence[i] \in {0, 1})
    /\ [](pc = "uart" => ENABLED uartTask(TRUE, "5"))
    /\ [][C8_Step]_vars

\* A new code, different from the initial one in every digit, has been set
\* while the alarm was ON and the keypad locked out.
C8_Witness ==
    /\ pc = "delay"
    /\ reply = "New code generated"
    /\ codeSequence = [i \in Keys |-> IF i < 2 THEN 0 ELSE 1]
    /\ alarmState
    /\ numberOfIncorrectCodes >= BLOCK_LEVEL

\* The blink half-period the claim gives for the recorded causes.
Cadence(gas, overTemp) ==
    IF gas /\ overTemp THEN 100 ELSE IF gas THEN 1000 ELSE 500

\* C9: while the alarm is ON and the recorded causes do not change, the
\* accumulator counts the ticks (alarmActivationUpdate calls) since the last
\* toggle in steps of 10 ms and stays below the cadence of the causes; the LED
\* toggles, and the accumulator returns to 0, exactly in the tick in which
\* the accumulator reaches the cadence: 10 ticks for both causes, 100 for gas
\* alone, 50 for over temperature alone.  No other step touches either.
C9_BlinkCadence ==
    /\ []((alarmState /\ (gasDetectorState \/ overTempDetectorState)) =>
            /\ accumulatedTimeAlarm \in
                  {TIME_INCREMENT_MS * k : k \in 0 .. 99}
            /\ accumulatedTimeAlarm <
                  Cadence(gasDetectorState, overTempDetectorState))
    /\ [][/\ (/\ pc = "activation"
              /\ alarmState /\ alarmState'
              /\ gasDetectorState \/ overTempDetectorState
              /\ gasDetectorState' = gasDetectorState
              /\ overTempDetectorState' = overTempDetectorState) =>
                 IF accumulatedTimeAlarm + TIME_INCREMENT_MS =
                        Cadence(gasDetectorState, overTempDetectorState)
                    THEN accumulatedTimeAlarm' = 0 /\ alarmLed' = ~alarmLed
                    ELSE /\ accumulatedTimeAlarm' =
                                accumulatedTimeAlarm + TIME_INCREMENT_MS
                         /\ alarmLed' = alarmLed
          /\ pc # "activation" =>
                UNCHANGED << accumulatedTimeAlarm, alarmLed >>]_vars

\* The LED has been toggled ON at the cadence of gas alone (only gas has been
\* recorded since the LED was last forced OFF).
C9_Witness ==
    /\ pc = "deactivation"
    /\ alarmState
    /\ gasDetectorState /\ ~overTempDetectorState
    /\ alarmLed
    /\ accumulatedTimeAlarm = 0

\* C10: alarmDeactivationUpdate changes numberOfIncorrectCodes or alarmState
\* only in a tick where alarmState is ON, the incorrect-code indicator is OFF,
\* the enter button is pressed and numberOfIncorrectCodes < 5.
C10_KeypadGuard ==
    [][(/\ pc = "deactivation"
        /\ \/ numberOfIncorrectCodes' # numberOfIncorrectCodes
           \/ alarmState' # alarmState) =>
          /\ alarmState
          /\ ~incorrectCodeLed
          /\ numberOfIncorrectCodes < BLOCK_LEVEL
          /\ \A a \in Levels, b \in Levels, c \in Levels, d \in Levels,
                e \in Levels :
                alarmDeactivationUpdate(a, b, c, d, e) => e = 1]_vars

\* The keypad alone (no serial command has run) has brought the counter to 5.
C10_Witness ==
    /\ pc = "uart"
    /\ buttonBeingCompared = 0
    /\ numberOfIncorrectCodes = BLOCK_LEVEL
    /\ ~systemBlockedLed


\* ---- C11

\* C11 (as stated): while a wrong code is held with enter pressed, the alarm
\* ON and nothing on the serial port, numberOfIncorrectCodes stands exactly
\* one above its value at the start of the hold, however many ticks the hold
\* has lasted.
C11_HeldCountedOnce ==
    hold.active => numberOfIncorrectCodes = hold.from + 1

\* C11 (amended): over the ticks of such a hold numberOfIncorrectCodes rises
\* by exactly one in total if at the first tick the incorrect-code indicator
\* is OFF and the counter is below 5 (that tick evaluates, the indicator it
\* lights gates every later tick), and does not change at all otherwise.
C11_HeldCountedAtMostOnce ==
    hold.active =>
        numberOfIncorrectCodes = hold.from + (IF hold.open THEN 1 ELSE 0)

\* A hold that began with the keypad open has lasted two ticks or more and
\* was counted once.
C11_Witness ==
    /\ hold.active
    /\ hold.again
    /\ hold.open
    /\ incorrectCodeLed
    /\ numberOfIncorrectCodes = hold.from + 1


\* ---- C12

\* C12: at the end of every alarmActivationUpdate that leaves the alarm OFF the
\* blink accumulator is 0 and the alarm LED is off, so that every Active
\* period starts its cadence timing from zero.
C12_TimerTornDown ==
    (pc = "deactivation" /\ ~alarmState) =>
        (accumulatedTimeAlarm = 0 /\ ~alarmLed)


\* ---- C13

\* C13: the alarmActivationUpdate that follows a code match (it starts with
\* the alarm OFF) ends with the state of the previous Active period cleaned
\* up.  If it leaves the alarm OFF, the LED is off, both cause flags are
\* clear and the siren pin is an input; if it raises the alarm again, each
\* cause flag is set only for a cause read by this call and the LED is on
\* only if this call toggled it.
C13_CleanUpAfterMatch ==
    [][\A sample \in Samples, mq2 \in Levels, alarmTestButton \in Levels :
          (~alarmState /\ alarmActivationUpdate(sample, mq2, alarmTestButton))
          => IF alarmState'
               THEN /\ gasDetectorState' => (mq2 = 0 \/ alarmTestButton # 0)
                    /\ overTempDetectorState' =>
                           (overTempDetector' \/ alarmTestButton # 0)
                    /\ alarmLed' => accumulatedTimeAlarm' = 0
               ELSE /\ ~alarmLed'
                    /\ ~gasDetectorState'
                    /\ ~overTempDetectorState'
                    /\ sirenPin' = "input"]_vars


\* ---- C14

\* C14: at the end of every alarmActivationUpdate the siren pin is an output
\* driven LOW if and only if alarmState is ON, and a high-impedance input if
\* and only if alarmState is OFF.
C14_SirenFollowsAlarm ==
    pc = "deactivation" =>
        /\ sirenPin = "outputLow" <=> alarmState
        /\ sirenPin = "input" <=> ~alarmState

\* An alarmActivationUpdate has ended with the alarm OFF and the siren pin an
\* input after an Active period in which the pin was driven.
C14_Witness ==
    /\ pc = "deactivation"
    /\ ~alarmState
    /\ sirenPin = "input"
    /\ accumulatedTimeAlarm > 0


\* ---- C15

\* The filtered temperature (the mean of the sample buffer, scaled by the
\* LM35 formula to degrees Celsius) is strictly greater than 50.
FilteredTemperatureOver50(arr) ==
    330 * lm35ReadingsSum(arr) > 50 * 100 * AvgSamples

\* C15: every alarmActivationUpdate in which gas is read (mq2 LOW), or the
\* filtered temperature is above 50 Celsius, or the test button is pressed,
\* ends with alarmState ON; one in which none of the three holds and that
\* started with alarmState OFF ends with alarmState OFF.
C15_ActivationOnAnyCause ==
    [][\A sample \in Samples, mq2 \in Levels, alarmTestButton \in Levels :
          alarmActivationUpdate(sample, mq2, alarmTestButton)
          => LET cause == \/ mq2 = 0
                          \/ FilteredTemperatureOver50(lm35ReadingsArray')
                          \/ alarmTestButton # 0
             IN  /\ cause => alarmState'
                 /\ (~cause /\ ~alarmState) => ~alarmState']_vars

\* An alarmActivationUpdate has raised the alarm for over-temperature alone.
C15_Witness ==
    /\ pc = "deactivation"
    /\ alarmState
    /\ overTempDetector
    /\ overTempDetectorState
    /\ ~gasDetectorState

\* ---- C16

\* C16: every alarmActivationUpdate in which the test button is pressed ends
\* with alarmState ON and with gasDetectorState and overTempDetectorState
\* both set, whatever the gas sensor and the temperature read, so that the
\* LED is timed at the 100 ms cadence of the two causes together.
C16_ManualTest ==
    [][\A sample \in Samples, mq2 \in Levels :
          alarmActivationUpdate(sample, mq2, 1)
          => /\ alarmState'
             /\ gasDetectorState'
             /\ overTempDetectorState'
             /\ Cadence(gasDetectorState', overTempDetectorState')
                    = BLINKING_TIME_GAS_AND_OVER_TEMP_ALARM
             /\ accumulatedTimeAlarm'
                    < BLINKING_TIME_GAS_AND_OVER_TEMP_ALARM]_vars

\* The test button has raised the alarm with both causes recorded while the
\* temperature sensor has only read 0.
C16_Witness ==
    /\ pc = "deactivation"
    /\ alarmState
    /\ gasDetectorState
    /\ overTempDetectorState
    /\ ~overTempDetector
    /\ \A i \in DOMAIN lm35ReadingsArray : lm35ReadingsArray[i] = 0
    /\ accumulatedTimeAlarm = TIME_INCREMENT_MS


\* ---- C17

\* uartTask is inside the four-byte loop of command '4' or '5'.
InSubProtocol == pc \in {"enterCode", "newCode"}

\* C17: from the read of command '4' or '5' to the read of the fourth byte
\* that follows it, the only steps of the program are the reads of those
\* bytes: no alarmActivationUpdate and no alarmDeactivationUpdate runs, the
\* cause flags, the accumulator, the LED, the siren pin, the over-temperature
\* detector and the sample buffer do not change, and alarmState does not
\* change before the fourth byte has been read (the step that reads the
\* fourth byte of command '4' carries the evaluation that follows the loop).
\* Each read consumes one byte and echoes one '*'; the loop is left, for the
\* rest of main's loop pass, after exactly four of them.
C17_BlockingSubProtocol ==
    /\ [](InSubProtocol =>
            /\ buttonBeingCompared \in 0 .. (NUMBER_OF_KEYS - 1)
            /\ echoed = buttonBeingCompared)
    /\ [][(pc = "uart" /\ pc' \in {"enterCode", "newCode"}) =>
            /\ buttonBeingCompared' = 0
            /\ echoed' = 0
            /\ UNCHANGED << alarmState, sensorVars, calls >>]_vars
    /\ [][InSubProtocol =>
            /\ pc' \in {pc, "delay"}
            /\ UNCHANGED << sensorVars, calls, recent >>
            /\ buttonBeingCompared' = buttonBeingCompared + 1
            /\ echoed' = echoed + 1
            /\ pc' = "delay" <=> echoed' = NUMBER_OF_KEYS
            /\ (pc' = pc \/ pc = "newCode") => UNCHANGED alarmState]_vars

\* Command '5' has read its four bytes and echoed four '*' in the middle of
\* an Active period, which it left as it was.
C17_Witness ==
    /\ pc = "delay"
    /\ echoed = NUMBER_OF_KEYS
    /\ reply = "New code generated"
    /\ alarmState
    /\ accumulatedTimeAlarm > 0
    /\ sirenPin = "outputLow"


\* ---- C18

\* The slot that holds the j-th most recent sample (j = 1 for the newest)
\* when the cursor is at `index`.
SlotOfRecent(index, j) == (index + AvgSamples - j) % AvgSamples

\* C18: after k calls of alarmActivationUpdate the cursor lm35SampleIndex is
\* k mod N and lies in 0 .. N-1, the buffer holds the min(k, N) most recent
\* samples (the newest just behind the cursor) and every slot not yet written
\* is still 0; each call writes the sample it reads into the slot at the
\* cursor and leaves the other slots alone, and no other step touches the
\* buffer or the cursor.  (N is the buffer length, k mod N is `calls` and the
\* min(k, N) most recent samples are `recent`.)
C18_SampleBuffer ==
    /\ [](/\ lm35SampleIndex \in 0 .. (AvgSamples - 1)
          /\ lm35SampleIndex = calls
          /\ Len(recent) <= AvgSamples
          /\ \A j \in 1 .. Len(recent) :
                 lm35ReadingsArray[SlotOfRecent(lm35SampleIndex, j)]
                     = recent[Len(recent) + 1 - j]
          /\ Len(recent) < AvgSamples =>
                 /\ lm35SampleIndex = Len(recent)
                 /\ \A i \in Len(recent) .. (AvgSamples - 1) :
                        lm35ReadingsArray[i] = 0)
    /\ [][\A sample \in Samples, mq2 \in Levels, alarmTestButton \in Levels :
            alarmActivationUpdate(sample, mq2, alarmTestButton)
            => /\ lm35ReadingsArray'[lm35SampleIndex] = sample
               /\ \A i \in DOMAIN lm35ReadingsArray :
                      i # lm35SampleIndex =>
                          lm35ReadingsArray'[i] = lm35ReadingsArray[i]
               /\ DOMAIN lm35ReadingsArray' = DOMAIN lm35ReadingsArray]_vars
    /\ [][pc # "activation" =>
            UNCHANGED << lm35ReadingsArray, lm35SampleIndex >>]_vars

\* The buffer has been filled and the cursor has wrapped: the oldest of the
\* N most recent samples, at the cursor, differs from the newest.
C18_Witness ==
    /\ Len(recent) = AvgSamples
    /\ lm35SampleIndex = 1
    /\ recent[1] = 20
    /\ recent[AvgSamples] = 0
    /\ lm35ReadingsArray[lm35SampleIndex] = 20


\* ---- C19

\* C19: whenever alarmState is ON at least one of gasDetectorState and
\* overTempDetectorState is set, and a step that clears either flag starts
\* and ends with alarmState OFF.
C19_ActiveHasCause ==
    /\ [](alarmState => (gasDetectorState \/ overTempDetectorState))
    /\ [][((gasDetectorState /\ ~gasDetectorState')
            \/ (overTempDetectorState /\ ~overTempDetectorState'))
           => (~alarmState /\ ~alarmState')]_vars

\* The alarm is still ON with its over-temperature flag set although the
\* temperature has fallen back and no gas has been recorded.
C19_Witness ==
    /\ pc = "deactivation"
    /\ alarmState
    /\ overTempDetectorState
    /\ ~gasDetectorState
    /\ ~overTempDetector


\* ---- C20

\* What command '5' must leave alone: alarmState, numberOfIncorrectCodes, the
\* incorrect-code and system-blocked indicators and the recorded cause flags.
FrameOfNewCode ==
    << alarmState, numberOfIncorrectCodes, incorrectCodeLed, systemBlockedLed,
       gasDetectorState, overTempDetectorState >>

\* C20: a call of uartTask that finds no byte, or reads a command byte other
\* than '4' and '5' ('1', '2', '3', 'p', 'P', 'c', 'C', 'f', 'F' or an
\* unrecognised byte), changes none of alarmState, the secret code,
\* numberOfIncorrectCodes, the two indicators and the cause flags; command
\* '5', from the read of the command byte to the read of its fourth digit,
\* changes nothing of these but the secret code.
C20_SerialFrame ==
    /\ [][\A readable \in BOOLEAN, ch \in Commands :
            (uartTask(readable, ch) /\ (~readable \/ ch \notin {"4", "5"}))
            => UNCHANGED << FrameOfNewCode, codeSequence >>]_vars
    /\ [][uartTask(TRUE, "5") => UNCHANGED << FrameOfNewCode, codeSequence >>]_vars
    /\ [][pc = "newCode" => UNCHANGED FrameOfNewCode]_vars

\* Command '5' has replaced the secret code while the alarm was ON, the
\* incorrect-code indicator lit and the counter above 0, and left them so.
C20_Witness ==
    /\ pc = "delay"
    /\ reply = "New code generated"
    /\ codeSequence # [i \in Keys |-> IF i < 2 THEN 1 ELSE 0]
    /\ alarmState
    /\ incorrectCodeLed
    /\ numberOfIncorrectCodes > 0
    /\ gasDetectorState

=============================================================================
